---- MODULE Spec2Model ----
(***************************************************************************)
(* Model of scripts/pack-addon.py: the kubeclipper addon packager.         *)
(*                                                                         *)
(* Spec        main() as a linear pipeline, with pull_images' worker pool  *)
(*             (ThreadPoolExecutor + as_completed) as interleaved steps.   *)
(* FairSpec    Next under weak fairness (the control thread and the        *)
(*             workers keep running, external commands return).            *)
(* SpecExtract render_images' loop over the rendered documents, applying   *)
(*             collect_images_from_obj to each.                            *)
(*                                                                         *)
(* Text (paths, addon names, image references) is a sequence of            *)
(* one-character strings, so that strip/join/basename compute on           *)
(* characters as the Python code does.                                     *)
(***************************************************************************)
EXTENDS Integers, Sequences, FiniteSets, TLC

VARIABLES
    \* ---- main(): arguments (args.*) ----
    name,            \* args.name
    tool,            \* args.image_tool
    parallel,        \* args.parallel
    ignore_errors,   \* args.ignore_pull_errors
    pull,            \* args.pull
    chart_path,      \* args.chart_path
    \* ---- main(): locals and the file system ----
    pc,              \* position of the control thread
    workdirExists,   \* the mkdtemp scratch directory exists
    top_dir,         \* os.path.join(workdir, args.name)
    archFiles,       \* names of the files present in arch_dir
    images,          \* result of render_images
    imagesList,      \* content written to images.list
    exportCmds,      \* image lists handed to the backend save/export command
    manifest,        \* "name" fields written to manifest.json
    outputFile,      \* state of the file at args.output
    arcname,         \* top-level entry name of the archive at args.output
    error,           \* the exception propagating out of the try block
    exitCode,        \* process exit status, -1 while running
    chartsRoot,      \* top-level entry name inside charts.tgz
    \* ---- pull_images ----
    probeResult,     \* image_exists result for each image probed
    to_pull,         \* images the prober reported absent
    submitted,       \* number of ex.submit calls done
    queue,           \* work items waiting in the executor's queue
    running,         \* images whose pull_one is executing
    pulledOk,        \* images whose pull_one returned
    pulledFailed,    \* images whose pull_one raised
    ascInitial,      \* as_completed: futures finished when iteration began
    ascFifo,         \* as_completed: futures finished since, oldest first
    yielded,         \* futures as_completed has handed to the loop body
    failures,        \* the failures list
    warned,          \* images listed in the final [WARN] report
    \* ---- render_images ----
    docs,            \* documents produced by yaml.safe_load_all
    docIdx,          \* number of documents already walked
    out,             \* the images accumulator
    seen,            \* the seen set
    \* ---- normalize_image_from_dict ----
    imgDict,         \* the mapping passed as d
    imgRef           \* the value returned

argVars == <<name, tool, parallel, ignore_errors, pull, chart_path>>
mainVars == <<pc, workdirExists, top_dir, archFiles, images, imagesList,
              exportCmds, manifest, outputFile, arcname, error, exitCode>>
pullVars == <<probeResult, to_pull, submitted, queue, running, pulledOk,
              pulledFailed, ascInitial, ascFifo, yielded, failures, warned>>
poolVars == <<queue, running, pulledOk, pulledFailed, ascInitial, ascFifo>>
extractVars == <<docs, docIdx, out, seen, imgDict, imgRef>>
vars == <<argVars, mainVars, pullVars, extractVars, chartsRoot>>

----------------------------------------------------------------------------
\* Bounds

MaxImages == 3
MaxParallel == 2
MaxDecor == 2
MaxDocs == 2

----------------------------------------------------------------------------
\* Text helpers

SEP == "/"

Text(chars, n) == UNION {[1..k -> chars] : k \in 0..n}

Range(s) == {s[i] : i \in 1..Len(s)}

startswith(s, c) == Len(s) > 0 /\ s[1] = c

endswith(s, c) == Len(s) > 0 /\ s[Len(s)] = c

RECURSIVE rstrip(_, _)
rstrip(s, chars) ==
    IF Len(s) > 0 /\ s[Len(s)] \in chars
    THEN rstrip(SubSeq(s, 1, Len(s) - 1), chars)
    ELSE s

RECURSIVE lstrip(_, _)
lstrip(s, chars) ==
    IF Len(s) > 0 /\ s[1] \in chars THEN lstrip(Tail(s), chars) ELSE s

strip(s, chars) == lstrip(rstrip(s, chars), chars)

\* posixpath.join(a, b)
join(a, b) ==
    IF startswith(b, SEP) THEN b
    ELSE IF a = <<>> \/ endswith(a, SEP) THEN a \o b
    ELSE a \o <<SEP>> \o b

\* posixpath.basename(p): the text after the last separator
basename(p) ==
    LET cut == {i \in 1..Len(p) : p[i] = SEP}
        last == IF cut = {} THEN 0 ELSE CHOOSE i \in cut : \A j \in cut : j <= i
    IN SubSeq(p, last + 1, Len(p))

\* tarfile.TarFile.add(name, arcname=...): the member name of the root entry
TarRootEntry(arc) == lstrip(arc, {SEP})

----------------------------------------------------------------------------
\* main(): inputs

\* addon names without a path separator: the empty name, ".", ".." and an
\* ordinary one
Names == {<<>>, <<".">>, <<".", ".">>, <<"a">>}

Tools == {"nerdctl", "docker", "ctr"}

ParallelValues == 0..MaxParallel

\* tempfile.mkdtemp(prefix="kc-addon-"): /t is the temp root, k the new entry
WorkDirName == <<"k">>
WorkDir == <<SEP, "t", SEP>> \o WorkDirName

\* a chart directory given by a plain relative name; the chart path takes
\* part in tar_dir_as_tgz only
PlainChart == <<"c">>

\* image references helm may render, in rendering order
ImageUniverse == << <<"a">>, <<"a", "b">>, <<"b">>, <<"b", "a">> >>

ImageLists == {SubSeq(ImageUniverse, 1, n) : n \in 0..MaxImages}

NoError == [type |-> "none", step |-> "none", img |-> <<>>]

Raise(type, step, img) == [type |-> type, step |-> step, img |-> img]

----------------------------------------------------------------------------
\* The backend (nerdctl / docker / ctr) and helm, as seen through run()

\* run(cmd): what a command's outcome makes subprocess.check_call /
\* check_output do.  "ok" exit 0, "nonzero" any other exit status, "enoent"
\* the executable cannot be launched.
run(status) ==
    CASE status = "ok" -> "returned"
      [] status = "nonzero" -> "CalledProcessError"
      [] status = "enoent" -> "FileNotFoundError"

CmdStatus == {"ok", "nonzero", "enoent"}

\* Python's `image in line` on text
Contains(line, image) ==
    \E i \in 1..(Len(line) + 1) :
        /\ i + Len(image) - 1 <= Len(line)
        /\ SubSeq(line, i, i + Len(image) - 1) = image

\* The answer of the backend to the command image_exists issues: `image
\* inspect` succeeds exactly for an image in the local store, `images ls -q`
\* prints the store.
Backend(installed, lsStatus, store, t, image) ==
    IF ~installed THEN [status |-> "enoent", lines |-> {}]
    ELSE IF t = "ctr" THEN [status |-> lsStatus, lines |-> store]
    ELSE [status |-> IF image \in store THEN "ok" ELSE "nonzero", lines |-> {}]

\* image_exists: "true", "false", or the name of the exception it lets escape
image_exists(t, image, answer) ==
    LET r == run(answer.status) IN
    IF r = "CalledProcessError" THEN "false"
    ELSE IF r # "returned" THEN r
    ELSE IF t \in {"nerdctl", "docker"} THEN "true"
    ELSE IF t = "ctr"
         THEN IF \E line \in answer.lines : image = line \/ Contains(line, image)
              THEN "true" ELSE "false"
    ELSE "false"

\* pull_one: "returned" or the name of the exception raised
pull_one(t, status) ==
    IF t \in Tools THEN run(status) ELSE "RuntimeError"

\* ThreadPoolExecutor(max_workers=max(1, parallel))
MaxWorkers(p) == IF p > 1 THEN p ELSE 1

\* PoolHasIdleWorker admitting one thread too many
PoolHasIdleWorkerOffByOne(run_, p) == Cardinality(run_) <= MaxWorkers(p)

PoolHasIdleWorker(run_, p) == Cardinality(run_) < MaxWorkers(p)

----------------------------------------------------------------------------
\* Initial state: the arguments are parsed, nothing has been done

ArgsInit ==
    /\ name \in Names
    /\ tool \in Tools
    /\ parallel \in ParallelValues
    /\ ignore_errors \in BOOLEAN
    /\ pull \in BOOLEAN
    /\ chart_path = PlainChart

MainInit ==
    /\ pc = "mkdtemp"
    /\ workdirExists = FALSE
    /\ top_dir = <<>>
    /\ archFiles = {}
    /\ images = <<>>
    /\ imagesList = <<>>
    /\ exportCmds = <<>>
    /\ manifest = <<>>
    /\ outputFile \in {"absent", "old"}
    /\ arcname = <<>>
    /\ error = NoError
    /\ exitCode = -1
    /\ chartsRoot = <<>>

PullInit ==
    /\ probeResult = {}
    /\ to_pull = <<>>
    /\ submitted = 0
    /\ queue = <<>>
    /\ running = {}
    /\ pulledOk = {}
    /\ pulledFailed = {}
    /\ ascInitial = {}
    /\ ascFifo = <<>>
    /\ yielded = {}
    /\ failures = <<>>
    /\ warned = <<>>

ExtractIdle ==
    /\ docs = <<>>
    /\ docIdx = 0
    /\ out = <<>>
    /\ seen = {}
    /\ imgDict = [t |-> "null", s |-> <<>>, kv |-> <<>>]
    /\ imgRef = <<>>

Init == ArgsInit /\ MainInit /\ PullInit /\ ExtractIdle

----------------------------------------------------------------------------
\* main(): the steps before pull_images

\* ExitStatus of a run that swallows the exception
ExitStatusZero(err) == 0

\* the interpreter's exit status: 1 for an uncaught exception, else 0
ExitStatus(err) == IF err = NoError THEN 0 ELSE 1

\* an exception inside the try block: control goes to the finally clause
Fail(type, step, img) ==
    /\ error' = Raise(type, step, img)
    /\ pc' = "finally"

Mkdtemp ==
    /\ pc = "mkdtemp"
    /\ \E ok \in BOOLEAN :
        IF ok
        THEN /\ workdirExists' = TRUE
             /\ pc' = "makedirs"
             /\ UNCHANGED <<error, exitCode>>
        ELSE /\ error' = Raise("OSError", "mkdtemp", <<>>)
             /\ exitCode' = ExitStatus(error')
             /\ pc' = "exit"
             /\ UNCHANGED workdirExists
    /\ UNCHANGED <<top_dir, archFiles, images, imagesList, exportCmds, manifest,
                   outputFile, arcname>>
    /\ UNCHANGED <<chartsRoot, argVars, pullVars, extractVars>>

\* What os.makedirs(arch_dir, exist_ok=True) can find in arch_dir.  Below
\* the new scratch directory it is empty; a top_dir ending in ".." is the
\* parent of the scratch directory, which outlives the run, and arch_dir
\* may hold the images.tar.gz an earlier run left there.
ArchDirContents(top) ==
    IF basename(top) = <<".", ".">> THEN SUBSET {"images.tar.gz"} ELSE {{}}

\* lines 291-293
Makedirs ==
    /\ pc = "makedirs"
    /\ top_dir' = join(WorkDir, name)
    /\ archFiles' \in ArchDirContents(top_dir')
    /\ \E ok \in BOOLEAN :
        IF ok THEN pc' = "charts" /\ UNCHANGED error
        ELSE Fail("OSError", "makedirs", <<>>)
    /\ UNCHANGED <<workdirExists, images, imagesList, exportCmds,
                   manifest, outputFile, arcname, exitCode>>
    /\ UNCHANGED <<chartsRoot, argVars, pullVars, extractVars>>

\* line 48
ChartArcname(path) == basename(path)

\* lines 296-297 and 47-48
tar_dir_as_tgz ==
    /\ pc = "charts"
    /\ archFiles' = archFiles \cup {"charts.tgz"}
    /\ \E ok \in BOOLEAN :
        IF ok
        THEN /\ chartsRoot' = TarRootEntry(ChartArcname(chart_path))
             /\ pc' = "render"
             /\ UNCHANGED error
        ELSE /\ Fail("OSError", "tar_dir_as_tgz", <<>>)
             /\ UNCHANGED chartsRoot
    /\ UNCHANGED <<workdirExists, top_dir, images, imagesList, exportCmds,
                   manifest, outputFile, arcname, exitCode>>
    /\ UNCHANGED <<argVars, pullVars, extractVars>>

render_images ==
    /\ pc = "render"
    /\ \E status \in CmdStatus :
        IF run(status) = "returned"
        THEN /\ images' \in ImageLists
             /\ pc' = "images_list"
             /\ UNCHANGED error
        ELSE /\ Fail(run(status), "helm_template", <<>>)
             /\ UNCHANGED images
    /\ UNCHANGED <<workdirExists, top_dir, archFiles, imagesList, exportCmds,
                   manifest, outputFile, arcname, exitCode>>
    /\ UNCHANGED <<chartsRoot, argVars, pullVars, extractVars>>

\* JoinLines writing the list back to front
RECURSIVE JoinLinesReversed(_)
JoinLinesReversed(imgs) ==
    IF imgs = <<>> THEN <<>>
    ELSE IF Len(imgs) = 1 THEN imgs[1]
    ELSE JoinLinesReversed(Tail(imgs)) \o <<"\n">> \o imgs[1]

\* line 305: "\n".join(images)
RECURSIVE JoinLines(_)
JoinLines(imgs) ==
    IF imgs = <<>> THEN <<>>
    ELSE IF Len(imgs) = 1 THEN imgs[1]
    ELSE imgs[1] \o <<"\n">> \o JoinLines(Tail(imgs))

\* ShouldPull without the --no-pull test
ShouldPullAlways(imgs, flag) == imgs # <<>>

\* line 308
ShouldPull(imgs, flag) == imgs # <<>> /\ flag

\* lines 303-308
WriteImagesList ==
    /\ pc = "images_list"
    /\ \E ok \in BOOLEAN :
        IF ok
        THEN /\ imagesList' = JoinLines(images)
             /\ archFiles' = archFiles \cup {"images.list"}
             /\ pc' = IF ShouldPull(images, pull) THEN "pull_images" ELSE "export"
             /\ UNCHANGED error
        ELSE /\ Fail("OSError", "images.list", <<>>)
             /\ UNCHANGED <<imagesList, archFiles>>
    /\ UNCHANGED <<workdirExists, top_dir, images, exportCmds, manifest,
                   outputFile, arcname, exitCode>>
    /\ UNCHANGED <<chartsRoot, argVars, pullVars, extractVars>>

----------------------------------------------------------------------------
\* pull_images

\* AbsentImages keeping every image
AbsentImagesAll(imgs, results) == imgs

\* line 170: the images whose probe answered false, in the order of imgs
AbsentImages(imgs, results) ==
    LET NotThere(i) == [img |-> i, r |-> "false"] \in results
    IN SelectSeq(imgs, NotThere)

\* lines 167-173: probe every image, keep the absent ones
Probe ==
    /\ pc = "pull_images"
    /\ \E installed \in BOOLEAN, lsStatus \in {"ok", "nonzero"},
          store \in SUBSET Range(ImageUniverse) :
        LET exists(img) ==
                image_exists(tool, img, Backend(installed, lsStatus, store, tool, img))
            results == {[img |-> i, r |-> exists(i)] : i \in Range(images)}
            first == exists(images[1])
        IN IF first \notin {"true", "false"}
           THEN /\ probeResult' = {[img |-> images[1], r |-> first]}
                /\ Fail(first, "image_exists", images[1])
                /\ UNCHANGED to_pull
           ELSE /\ probeResult' = results
                /\ to_pull' = AbsentImages(images, results)
                /\ pc' = IF to_pull' = <<>> THEN "export" ELSE "submit"
                /\ UNCHANGED error
    /\ UNCHANGED <<workdirExists, top_dir, archFiles, images, imagesList,
                   exportCmds, manifest, outputFile, arcname, exitCode>>
    /\ UNCHANGED <<submitted, poolVars, yielded, failures, warned>>
    /\ UNCHANGED <<chartsRoot, argVars, extractVars>>

\* line 179: one ex.submit per image of to_pull, in order
Submit ==
    /\ pc = "submit"
    /\ submitted < Len(to_pull)
    /\ submitted' = submitted + 1
    /\ queue' = Append(queue, to_pull[submitted + 1])
    /\ UNCHANGED <<running, pulledOk, pulledFailed, ascInitial, ascFifo>>
    /\ UNCHANGED <<probeResult, to_pull, yielded, failures, warned>>
    /\ UNCHANGED <<chartsRoot, argVars, mainVars, extractVars>>

\* line 180: as_completed starts with the futures that are already finished
BeginCollect ==
    /\ pc = "submit"
    /\ submitted = Len(to_pull)
    /\ ascInitial' = pulledOk \cup pulledFailed
    /\ pc' = "collect"
    /\ UNCHANGED <<workdirExists, top_dir, archFiles, images, imagesList,
                   exportCmds, manifest, outputFile, arcname, error, exitCode>>
    /\ UNCHANGED <<queue, running, pulledOk, pulledFailed, ascFifo>>
    /\ UNCHANGED <<probeResult, to_pull, submitted, yielded, failures, warned>>
    /\ UNCHANGED <<chartsRoot, argVars, extractVars>>

\* a pool thread takes the oldest queued work item and enters pull_one
StartPull ==
    /\ pc \in {"submit", "collect", "shutdown"}
    /\ queue # <<>>
    /\ PoolHasIdleWorker(running, parallel)
    /\ running' = running \cup {Head(queue)}
    /\ queue' = Tail(queue)
    /\ UNCHANGED <<pulledOk, pulledFailed, ascInitial, ascFifo>>
    /\ UNCHANGED <<probeResult, to_pull, submitted, yielded, failures, warned>>
    /\ UNCHANGED <<chartsRoot, argVars, mainVars, extractVars>>

\* pull_one returns or raises; the future is finished and the as_completed
\* waiter, while installed, is notified
FinishPull ==
    /\ pc \in {"submit", "collect", "shutdown"}
    /\ \E img \in running, status \in CmdStatus :
        /\ running' = running \ {img}
        /\ IF pull_one(tool, status) = "returned"
           THEN pulledOk' = pulledOk \cup {img} /\ UNCHANGED pulledFailed
           ELSE pulledFailed' = pulledFailed \cup {img} /\ UNCHANGED pulledOk
        /\ ascFifo' = IF pc = "collect" THEN Append(ascFifo, img) ELSE ascFifo
    /\ UNCHANGED <<queue, ascInitial>>
    /\ UNCHANGED <<probeResult, to_pull, submitted, yielded, failures, warned>>
    /\ UNCHANGED <<chartsRoot, argVars, mainVars, extractVars>>

\* the futures as_completed can yield next
NextCompleted ==
    IF ascInitial # {} THEN ascInitial
    ELSE IF ascFifo # <<>> THEN {Head(ascFifo)}
    ELSE {}

\* FailFast with the ignore_errors test dropped either way
FailFastNever(ignore) == FALSE

FailFastAlways(ignore) == TRUE

\* lines 189-190
FailFast(ignore) == ~ignore

\* lines 180-190: one iteration of the loop over as_completed
Collect ==
    /\ pc = "collect"
    /\ \E img \in NextCompleted :
        /\ yielded' = yielded \cup {img}
        /\ ascInitial' = ascInitial \ {img}
        /\ ascFifo' = IF img \in ascInitial THEN ascFifo ELSE Tail(ascFifo)
        /\ IF img \in pulledFailed
           THEN /\ failures' = Append(failures, img)
                /\ IF FailFast(ignore_errors)
                   THEN /\ error' = Raise("RuntimeError", "pull_images", img)
                        /\ pc' = "shutdown"
                   ELSE /\ UNCHANGED error
                        /\ pc' = IF yielded' = Range(to_pull)
                                 THEN "shutdown" ELSE "collect"
           ELSE /\ UNCHANGED <<failures, error>>
                /\ pc' = IF yielded' = Range(to_pull) THEN "shutdown" ELSE "collect"
    /\ UNCHANGED <<workdirExists, top_dir, archFiles, images, imagesList,
                   exportCmds, manifest, outputFile, arcname, exitCode>>
    /\ UNCHANGED <<queue, running, pulledOk, pulledFailed>>
    /\ UNCHANGED <<probeResult, to_pull, submitted, warned>>
    /\ UNCHANGED <<chartsRoot, argVars, extractVars>>

\* ShutdownReturns for shutdown(wait=False)
ShutdownNoWait(q, run_) == TRUE

\* shutdown(wait=True) joins the pool threads, which exit once the queue is
\* drained
ShutdownReturns(q, run_) == q = <<>> /\ run_ = {}

\* leaving the with block: ThreadPoolExecutor.__exit__ is shutdown(wait=True),
\* which returns once every submitted work item has run; then lines 192-195
\* and the return, or the pending exception propagates to main()
PoolShutdown ==
    /\ pc = "shutdown"
    /\ ShutdownReturns(queue, running)
    /\ IF error = NoError
       THEN /\ warned' = IF failures # <<>> /\ ignore_errors THEN failures ELSE <<>>
            /\ pc' = "export"
       ELSE /\ UNCHANGED warned
            /\ pc' = "finally"
    /\ UNCHANGED <<workdirExists, top_dir, archFiles, images, imagesList,
                   exportCmds, manifest, outputFile, arcname, error, exitCode>>
    /\ UNCHANGED <<probeResult, to_pull, submitted, poolVars, yielded, failures>>
    /\ UNCHANGED <<chartsRoot, argVars, extractVars>>

----------------------------------------------------------------------------
\* main(): the steps after pull_images

\* lines 313-315: save_images_to_tar runs the backend save/export command
\* over the list it is given
save_images_to_tar ==
    /\ pc = "export"
    /\ IF images # <<>>
       THEN /\ exportCmds' = Append(exportCmds, images)
            /\ \E status \in CmdStatus :
                IF run(status) = "returned"
                THEN /\ archFiles' = archFiles \cup {"images.tar"}
                     /\ pc' = "gzip"
                     /\ UNCHANGED error
                ELSE /\ Fail(run(status), "save_images_to_tar", <<>>)
                     /\ UNCHANGED archFiles
       ELSE /\ pc' = "manifest"
            /\ UNCHANGED <<exportCmds, archFiles, error>>
    /\ UNCHANGED <<workdirExists, top_dir, images, imagesList, manifest,
                   outputFile, arcname, exitCode>>
    /\ UNCHANGED <<chartsRoot, argVars, pullVars, extractVars>>

\* line 316
gzip_file ==
    /\ pc = "gzip"
    /\ archFiles' = archFiles \cup {"images.tar.gz"}
    /\ \E ok \in BOOLEAN :
        IF ok THEN pc' = "remove" /\ UNCHANGED error
        ELSE Fail("OSError", "gzip_file", <<>>)
    /\ UNCHANGED <<workdirExists, top_dir, images, imagesList, exportCmds,
                   manifest, outputFile, arcname, exitCode>>
    /\ UNCHANGED <<chartsRoot, argVars, pullVars, extractVars>>

\* line 317
RemoveTmpTar ==
    /\ pc = "remove"
    /\ archFiles' = archFiles \ {"images.tar"}
    /\ pc' = "manifest"
    /\ UNCHANGED <<workdirExists, top_dir, images, imagesList, exportCmds,
                   manifest, outputFile, arcname, error, exitCode>>
    /\ UNCHANGED <<chartsRoot, argVars, pullVars, extractVars>>

\* lines 324-326
ManifestFiles(files) ==
    <<"charts.tgz">> \o
        (IF "images.tar.gz" \in files THEN <<"images.tar.gz">> ELSE <<>>)

\* lines 233-242: one entry per listed name that is a file of arch_dir
ManifestEntries(files, filenames) ==
    LET isfile(fn) == fn \in files IN SelectSeq(filenames, isfile)

write_manifest ==
    /\ pc = "manifest"
    /\ \E ok \in BOOLEAN :
        IF ok
        THEN /\ manifest' = ManifestEntries(archFiles, ManifestFiles(archFiles))
             /\ archFiles' = archFiles \cup {"manifest.json"}
             /\ pc' = "tarball"
             /\ UNCHANGED error
        ELSE /\ Fail("OSError", "write_manifest", <<>>)
             /\ UNCHANGED <<manifest, archFiles>>
    /\ UNCHANGED <<workdirExists, top_dir, images, imagesList, exportCmds,
                   outputFile, arcname, exitCode>>
    /\ UNCHANGED <<chartsRoot, argVars, pullVars, extractVars>>

\* line 253
FinalBase(top) == basename(rstrip(top, {SEP}))

\* lines 253-255: tarfile.open(output, "w:gz") creates or truncates the file
\* at the output path, then out.add writes the tree into it.  "open" fails
\* before the file is touched, "add" fails while the archive is being written.
create_final_tarball ==
    /\ pc = "tarball"
    /\ \E outcome \in {"ok", "open", "add"} :
        CASE outcome = "ok" ->
                /\ outputFile' = "complete"
                /\ arcname' = TarRootEntry(FinalBase(top_dir))
                /\ pc' = "report"
                /\ UNCHANGED error
          [] outcome = "open" ->
                /\ Fail("OSError", "create_final_tarball", <<>>)
                /\ UNCHANGED <<outputFile, arcname>>
          [] outcome = "add" ->
                /\ outputFile' = "partial"
                /\ Fail("OSError", "create_final_tarball", <<>>)
                /\ UNCHANGED arcname
    /\ UNCHANGED <<workdirExists, top_dir, archFiles, images, imagesList,
                   exportCmds, manifest, exitCode>>
    /\ UNCHANGED <<chartsRoot, argVars, pullVars, extractVars>>

\* lines 332-342
Report ==
    /\ pc = "report"
    /\ pc' = "finally"
    /\ UNCHANGED <<workdirExists, top_dir, archFiles, images, imagesList,
                   exportCmds, manifest, outputFile, arcname, error, exitCode>>
    /\ UNCHANGED <<chartsRoot, argVars, pullVars, extractVars>>

\* rmtree placed after the try block instead of in its finally clause
rmtreeOnSuccessOnly(existed, err) == IF err = NoError THEN FALSE ELSE existed

\* line 345, reached with or without a pending exception: does the scratch
\* directory exist afterwards
rmtree(existed, err) == FALSE

\* lines 344-345, then main() returns or the exception propagates
Finally ==
    /\ pc = "finally"
    /\ workdirExists' = rmtree(workdirExists, error)
    /\ exitCode' = ExitStatus(error)
    /\ pc' = "exit"
    /\ UNCHANGED <<top_dir, archFiles, images, imagesList, exportCmds,
                   manifest, outputFile, arcname, error>>
    /\ UNCHANGED <<chartsRoot, argVars, pullVars, extractVars>>

Next ==
    \/ Mkdtemp
    \/ Makedirs
    \/ tar_dir_as_tgz
    \/ render_images
    \/ WriteImagesList
    \/ Probe
    \/ Submit
    \/ BeginCollect
    \/ StartPull
    \/ FinishPull
    \/ Collect
    \/ PoolShutdown
    \/ save_images_to_tar
    \/ gzip_file
    \/ RemoveTmpTar
    \/ write_manifest
    \/ create_final_tarball
    \/ Report
    \/ Finally

Spec == Init /\ [][Next]_vars

\* The runs checked for termination: the addon name and a file already at
\* the output path take no part in the control flow, so one of each is kept.
FairInit ==
    /\ Init
    /\ name = <<"a">>
    /\ outputFile = "absent"

\* The control thread runs to completion, the pool threads run the work they
\* take, and every external command returns.
FairSpec == FairInit /\ [][Next]_vars /\ WF_vars(Next)

----------------------------------------------------------------------------
\* render_images: the rendered documents and the extractor

\* A YAML node is a record: t its kind ("null", "str", "list", "dict"), s the
\* text of a str, kv the items of a list (k unused) or, in insertion order,
\* the key/value pairs of a dict.
Null == [t |-> "null", s |-> <<>>, kv |-> <<>>]

Str(text) == [t |-> "str", s |-> text, kv |-> <<>>]

List(items) ==
    [t |-> "list", s |-> <<>>,
     kv |-> [i \in 1..Len(items) |-> [k |-> "", v |-> items[i]]]]

Dict(pairs) ==
    [t |-> "dict", s |-> <<>>,
     kv |-> [i \in 1..Len(pairs) |-> [k |-> pairs[i][1], v |-> pairs[i][2]]]]

HasKey(d, key) == \E i \in 1..Len(d.kv) : d.kv[i].k = key

\* d.get(key)
Get(d, key) ==
    IF HasKey(d, key)
    THEN d.kv[CHOOSE i \in 1..Len(d.kv) : d.kv[i].k = key].v
    ELSE Null

\* bool(node)
Truthy(node) ==
    CASE node.t = "null" -> FALSE
      [] node.t = "str" -> node.s # <<>>
      [] OTHER -> node.kv # <<>>

\* a or b
Or(a, b) == IF Truthy(a) THEN a ELSE b

\* str(node), for the text nodes the documents of DocSet carry
PyStr(node) == node.s

WS == {" ", "\t", "\n"}

DQ == "\""

SQ == "'"

\* lines 85 and 94: v.strip().strip('"').strip("'")
StripImage(text) == strip(strip(strip(text, WS), {DQ}), {SQ})

\* normalize_image_from_dict testing the tag before the digest
normalize_tag_first(d) ==
    LET repo == Or(Or(Get(d, "repository"), Get(d, "repo")), Get(d, "name"))
        tag == Get(d, "tag")
        digest == Get(d, "digest")
    IN IF ~Truthy(repo) THEN <<>>
       ELSE IF Truthy(tag)
            THEN IF ":" \notin Range(PyStr(repo))
                 THEN PyStr(repo) \o <<":">> \o PyStr(tag)
                 ELSE PyStr(repo)
       ELSE IF Truthy(digest)
            THEN IF "@" \notin Range(PyStr(repo))
                 THEN PyStr(repo) \o <<"@">> \o PyStr(digest)
                 ELSE PyStr(repo)
       ELSE PyStr(repo)

\* lines 60-71; None is rendered as the empty text, which no branch returns
normalize_image_from_dict(d) ==
    LET repo == Or(Or(Get(d, "repository"), Get(d, "repo")), Get(d, "name"))
        tag == Get(d, "tag")
        digest == Get(d, "digest")
    IN IF ~Truthy(repo) THEN <<>>
       ELSE IF Truthy(digest)
            THEN IF "@" \notin Range(PyStr(repo))
                 THEN PyStr(repo) \o <<"@">> \o PyStr(digest)
                 ELSE PyStr(repo)
       ELSE IF Truthy(tag)
            THEN IF ":" \notin Range(PyStr(repo))
                 THEN PyStr(repo) \o <<":">> \o PyStr(tag)
                 ELSE PyStr(repo)
       ELSE PyStr(repo)

\* AddImage without the seen test
AddImageNoSeen(acc, img) ==
    IF img # <<>>
    THEN [out |-> Append(acc.out, img), seen |-> acc.seen \cup {img}]
    ELSE acc

\* `if img and img not in seen: out.append(img); seen.add(img)`
AddImage(acc, img) ==
    IF img # <<>> /\ img \notin acc.seen
    THEN [out |-> Append(acc.out, img), seen |-> acc.seen \cup {img}]
    ELSE acc

\* lines 83-88: the elements of one container list, from the i-th on
RECURSIVE CollectContainers(_, _, _)
CollectContainers(items, i, acc) ==
    IF i > Len(items) THEN acc
    ELSE LET c == items[i].v
             next == IF c.t = "dict" /\ Get(c, "image").t = "str"
                     THEN AddImage(acc, StripImage(Get(c, "image").s))
                     ELSE acc
         IN CollectContainers(items, i + 1, next)

ContainerKeys == <<"containers", "initContainers", "ephemeralContainers">>

\* lines 80-88: the three container keys, from the i-th on
RECURSIVE CollectContainerKeys(_, _, _)
CollectContainerKeys(obj, i, acc) ==
    IF i > Len(ContainerKeys) THEN acc
    ELSE LET v == Get(obj, ContainerKeys[i])
             next == IF v.t = "list" THEN CollectContainers(v.kv, 1, acc) ELSE acc
         IN CollectContainerKeys(obj, i + 1, next)

\* lines 91-102
CollectImageKey(obj, acc) ==
    IF ~HasKey(obj, "image") THEN acc
    ELSE LET v == Get(obj, "image") IN
         CASE v.t = "str" -> AddImage(acc, StripImage(v.s))
           [] v.t = "dict" -> AddImage(acc, normalize_image_from_dict(v))
           [] OTHER -> acc

RECURSIVE collect_images_from_obj(_, _)
RECURSIVE CollectValues(_, _, _)

\* lines 104-105 and 109-110: recurse into the values, from the i-th on
CollectValues(items, i, acc) ==
    IF i > Len(items) THEN acc
    ELSE CollectValues(items, i + 1, collect_images_from_obj(items[i].v, acc))

\* lines 74-111; acc is the pair of out and seen
collect_images_from_obj(obj, acc) ==
    CASE obj.t = "dict" ->
            CollectValues(obj.kv, 1,
                CollectImageKey(obj, CollectContainerKeys(obj, 1, acc)))
      [] obj.t = "list" -> CollectValues(obj.kv, 1, acc)
      [] OTHER -> acc

\* ---- the rendered documents considered ----

Decor == {" ", DQ, SQ}

\* image text as written in a manifest: a core with up to n characters of
\* quoting and blanks around it
RawRefs(n) ==
    {pre \o <<"x">> \o post :
        <<pre, post>> \in {pp \in Text(Decor, n) \X Text(Decor, n) :
                             Len(pp[1]) + Len(pp[2]) <= n}}

ContainerRefs == {<<"x">>, <<"y">>, <<" ", "x">>, <<>>}

\* {image: <text>}
ValuesDoc(text) == Dict(<< <<"image", Str(text)>> >>)

\* {spec: {initContainers: [{image: b}], containers: [{image: a}]}}
PodDoc(a, b) ==
    Dict(<< <<"spec", Dict(<<
        <<"initContainers", List(<< Dict(<< <<"image", Str(b)>> >>) >>)>>,
        <<"containers", List(<< Dict(<< <<"image", Str(a)>> >>) >>)>> >>)>> >>)

\* {image: {repository: r, tag: t}}, {image: {name: r, digest: g}}, ...
ImageDictDoc(key, r, tag, digest) ==
    Dict(<< <<"image", Dict(<< <<key, r>>, <<"tag", tag>>, <<"digest", digest>> >>)>> >>)

\* documents that put one image under several spellings, keys and nestings
PlainDocs ==
    {ValuesDoc(r) : r \in RawRefs(1)}
    \cup {PodDoc(a, b) : a \in ContainerRefs, b \in ContainerRefs}
    \cup {ImageDictDoc(k, Str(r), t, g) :
            k \in {"repository", "name"}, r \in {<<"x">>, <<" ", "x">>},
            t \in {Null, Str(<<"v">>)}, g \in {Null, Str(<<"d">>)}}
    \cup {Null, Str(<<"x">>)}

\* plus every quoting of an image text
DocSet == PlainDocs \cup {ValuesDoc(r) : r \in RawRefs(MaxDecor)}

\* what yaml.safe_load_all yields: any one document, or up to MaxDocs plain ones
DocSeqs ==
    {<<d>> : d \in DocSet} \cup UNION {[1..n -> PlainDocs] : n \in 2..MaxDocs}

\* main() at line 300, about to call render_images
InitExtract ==
    /\ name = <<"a">>
    /\ tool = "nerdctl"
    /\ parallel = 1
    /\ ignore_errors = FALSE
    /\ pull = FALSE
    /\ chart_path = PlainChart
    /\ pc = "render"
    /\ workdirExists = TRUE
    /\ top_dir = join(WorkDir, name)
    /\ archFiles = {"charts.tgz"}
    /\ images = <<>>
    /\ imagesList = <<>>
    /\ exportCmds = <<>>
    /\ manifest = <<>>
    /\ outputFile = "absent"
    /\ arcname = <<>>
    /\ error = NoError
    /\ exitCode = -1
    /\ chartsRoot = PlainChart
    /\ PullInit
    /\ docs \in DocSeqs
    /\ docIdx = 0
    /\ out = <<>>
    /\ seen = {}
    /\ imgDict = Null
    /\ imgRef = <<>>

\* lines 120-121: one iteration over yaml.safe_load_all(text)
ExtractDoc ==
    /\ pc = "render"
    /\ docIdx < Len(docs)
    /\ LET acc == collect_images_from_obj(docs[docIdx + 1],
                                          [out |-> out, seen |-> seen])
       IN /\ out' = acc.out
          /\ seen' = acc.seen
    /\ docIdx' = docIdx + 1
    /\ UNCHANGED <<docs, imgDict, imgRef>>
    /\ UNCHANGED <<chartsRoot, argVars, mainVars, pullVars>>

\* line 122: return images
ExtractReturn ==
    /\ pc = "render"
    /\ docIdx = Len(docs)
    /\ images' = out
    /\ pc' = "images_list"
    /\ UNCHANGED <<workdirExists, top_dir, archFiles, imagesList,
                   exportCmds, manifest, outputFile, arcname, error, exitCode>>
    /\ UNCHANGED <<chartsRoot, argVars, pullVars, extractVars>>

NextExtract == ExtractDoc \/ ExtractReturn

SpecExtract == InitExtract /\ [][NextExtract]_vars

----------------------------------------------------------------------------
\* normalize_image_from_dict on its own

\* marks a key the mapping does not have
Absent == [t |-> "absent", s |-> <<>>, kv |-> <<>>]

\* the mapping with the given pairs, less those marked Absent
Mapping(pairs) ==
    LET Present(p) == p[2] # Absent IN Dict(SelectSeq(pairs, Present))

\* image mappings as chart values write them
ImageDicts ==
    {Mapping(<< <<"repository", r>>, <<"repo", p>>, <<"name", n>>,
                <<"tag", t>>, <<"digest", g>> >>) :
        r \in {Absent, Null, Str(<<>>), Str(<<"r">>), Str(<<"r", ":", "1">>),
                Str(<<"r", "@", "s">>)},
        p \in {Absent, Str(<<>>), Str(<<"p">>)},
        n \in {Absent, Str(<<"n">>)},
        t \in {Absent, Str(<<>>), Str(<<"t">>)},
        g \in {Absent, Str(<<>>), Str(<<"d">>)}}

\* collect_images_from_obj at line 99, about to call normalize_image_from_dict
InitNormalize ==
    /\ name = <<"a">>
    /\ tool = "nerdctl"
    /\ parallel = 1
    /\ ignore_errors = FALSE
    /\ pull = FALSE
    /\ chart_path = PlainChart
    /\ pc = "normalize"
    /\ workdirExists = TRUE
    /\ top_dir = join(WorkDir, name)
    /\ archFiles = {"charts.tgz"}
    /\ images = <<>>
    /\ imagesList = <<>>
    /\ exportCmds = <<>>
    /\ manifest = <<>>
    /\ outputFile = "absent"
    /\ arcname = <<>>
    /\ error = NoError
    /\ exitCode = -1
    /\ chartsRoot = PlainChart
    /\ PullInit
    /\ docs = <<>>
    /\ docIdx = 0
    /\ out = <<>>
    /\ seen = {}
    /\ imgDict \in ImageDicts
    /\ imgRef = <<>>

\* line 99
Normalize ==
    /\ pc = "normalize"
    /\ imgRef' = normalize_image_from_dict(imgDict)
    /\ pc' = "normalized"
    /\ UNCHANGED <<workdirExists, top_dir, archFiles, images, imagesList,
                   exportCmds, manifest, outputFile, arcname, error, exitCode>>
    /\ UNCHANGED <<docs, docIdx, out, seen, imgDict>>
    /\ UNCHANGED <<chartsRoot, argVars, pullVars>>

NextNormalize == Normalize

SpecNormalize == InitNormalize /\ [][NextNormalize]_vars

-----------------------------------------------------------------------------
\* tar_dir_as_tgz over the chart paths a caller can pass to --chart-path

MaxPathLen == 3

PathChars == {"c", "d", ".", SEP}

\* the directory paths considered: relative or absolute, nested, with or
\* without trailing separators; the root directory alone is left out
ChartPaths ==
    {p \in UNION {[1..n -> PathChars] : n \in 1..MaxPathLen} :
        \E i \in 1..Len(p) : p[i] # SEP}

\* main() at line 295, the staging directory made
InitChart ==
    /\ name = <<"a">>
    /\ tool = "nerdctl"
    /\ parallel = 1
    /\ ignore_errors = FALSE
    /\ pull = FALSE
    /\ chart_path \in ChartPaths
    /\ pc = "charts"
    /\ workdirExists = TRUE
    /\ top_dir = join(WorkDir, name)
    /\ archFiles = {}
    /\ images = <<>>
    /\ imagesList = <<>>
    /\ exportCmds = <<>>
    /\ manifest = <<>>
    /\ outputFile = "absent"
    /\ arcname = <<>>
    /\ error = NoError
    /\ exitCode = -1
    /\ chartsRoot = <<>>
    /\ PullInit
    /\ ExtractIdle

NextChart == tar_dir_as_tgz

SpecChart == InitChart /\ [][NextChart]_vars

----------------------------------------------------------------------------
\* Properties of main() and pull_images

PullPhase == {"pull_images", "submit", "collect", "shutdown"}

AfterPull == {"export", "gzip", "remove", "manifest", "tarball", "report"}

\* C1: whenever create_final_tarball has written the final archive, its
\* top-level entry name equals the addon name, and is neither ".", nor empty,
\* nor the name of the scratch directory.
C1_TopLevelIsName ==
    outputFile = "complete" =>
        /\ arcname = name
        /\ arcname # <<".">>
        /\ arcname # <<>>
        /\ arcname # WorkDirName

\* C2: with ignore_errors false, once a pull has failed, pull_images ends by
\* raising an error that names an image whose pull failed, and the run never
\* exports, writes the manifest or writes the final archive.
C2_FailFastStopsPipeline ==
    (~ignore_errors /\ pulledFailed # {}) =>
        /\ pc \notin AfterPull
        /\ exportCmds = <<>>
        /\ manifest = <<>>
        /\ "manifest.json" \notin archFiles
        /\ outputFile \in {"absent", "old"}
        /\ pc \in {"finally", "exit"} =>
              /\ error.type = "RuntimeError"
              /\ error.step = "pull_images"
              /\ error.img \in pulledFailed

C2_Witness ==
    /\ pc = "exit"
    /\ ~ignore_errors
    /\ pulledOk # {}
    /\ error.step = "pull_images"
    /\ error.img \in pulledFailed

\* C3: with ignore_errors false, after the control thread has observed the
\* first failed pull, no further pull_one is started.
C3_NoStartAfterAbort ==
    [][(pc = "shutdown" /\ error # NoError) => running' \subseteq running]_vars

\* C4: with ignore_errors true and pulling enabled, the images handed to the
\* export command are exactly those the prober found present plus those
\* whose pull succeeded.
C4_ExportOnlyAcquired ==
    (ignore_errors /\ pull /\ exportCmds # <<>>) =>
        Range(exportCmds[1]) = (Range(images) \ Range(to_pull)) \cup pulledOk

\* C5: a run that ends in failure after the scratch directory was created
\* leaves the output path as it found it: no partial or complete file was
\* written there.
C5_NoOutputOnFailure ==
    (pc = "exit" /\ error # NoError) => outputFile \in {"absent", "old"}

\* C6: every run that creates the scratch directory eventually ends with
\* the scratch directory removed, whatever the exit path.
C6_ScratchRemoved ==
    workdirExists ~> (pc = "exit" /\ ~workdirExists)

C6_Witness ==
    /\ pc = "exit"
    /\ ~workdirExists
    /\ error.step = "pull_images"
    /\ top_dir # <<>>

\* C7: the number of pull_one invocations in flight never exceeds
\* max(1, parallel), for parallel <= 0 too, and an image is in at most one
\* place: queued, being pulled by one invocation, or finished.
C7_BoundedInFlight ==
    /\ Cardinality(running) <= (IF parallel >= 1 THEN parallel ELSE 1)
    /\ running \cap (pulledOk \cup pulledFailed) = {}
    /\ running \cap Range(queue) = {}
    /\ pulledOk \cap pulledFailed = {}

C7_Witness ==
    /\ parallel <= 0
    /\ Cardinality(running) = 1
    /\ queue # <<>>
    /\ pulledOk \cup pulledFailed # {}

\* C8: with ignore_errors true, pull failures never make pull_images raise;
\* when it has returned, a pull was attempted for every image reported
\* absent, and the failures list, which is the list reported, holds exactly
\* the images whose pull failed, each once.
C8_IgnoreModeCollectsAll ==
    ignore_errors =>
        /\ error.step # "pull_images"
        /\ (to_pull # <<>> /\ pc \notin PullPhase) =>
              /\ pulledOk \cup pulledFailed = Range(to_pull)
              /\ Range(failures) = pulledFailed
              /\ Len(failures) = Cardinality(pulledFailed)
              /\ warned = failures

C8_Witness ==
    /\ ignore_errors
    /\ pc = "export"
    /\ pulledOk # {}
    /\ Cardinality(pulledFailed) >= 2
    /\ Len(warned) >= 2

\* C9: image_exists never raises: every probe answers true or false.
C9_ImageExistsNeverRaises ==
    \A p \in probeResult : p.r \in {"true", "false"}

\* C13: in a successful run the manifest lists only files of arch_dir; it
\* has an images.tar.gz entry exactly when the image list is not empty; with
\* an empty list there is no images.tar.gz and charts.tgz is the only entry;
\* images.tar, images.list and manifest.json are never entries.
C13_ManifestMatchesImages ==
    exitCode = 0 =>
        /\ Range(manifest) \subseteq archFiles
        /\ "images.tar.gz" \in Range(manifest) <=> images # <<>>
        /\ images = <<>> =>
              /\ "images.tar.gz" \notin archFiles
              /\ manifest = <<"charts.tgz">>
        /\ Range(manifest) \cap {"images.tar", "images.list", "manifest.json"} = {}

\* the images the backend's probe reported absent
ReportedAbsent == {p.img : p \in {q \in probeResult : q.r = "false"}}

\* the images for which a pull command has been started
Started == running \cup pulledOk \cup pulledFailed

\* C14: the images to pull are those the probe reported absent; a pull is
\* started only for such an image, at most once each, and once pull_images
\* is over every image reported absent has had exactly one pull; when every
\* image is reported present nothing is submitted and the pool is never
\* entered.
C14_PullExactlyAbsent ==
    /\ Range(to_pull) = ReportedAbsent
    /\ Len(to_pull) = Cardinality(ReportedAbsent)
    /\ Started \cup Range(queue) = Range(SubSeq(to_pull, 1, submitted))
    /\ Started \cap Range(queue) = {}
    /\ Cardinality(Started) + Len(queue) = submitted
    /\ Started \subseteq ReportedAbsent
    /\ (probeResult # {} /\ pc \notin PullPhase) => Started = ReportedAbsent
    /\ (probeResult # {} /\ ReportedAbsent = {}) =>
           /\ submitted = 0
           /\ pc \notin {"submit", "collect", "shutdown"}

C14_Witness ==
    /\ pc = "export"
    /\ ReportedAbsent # {}
    /\ ReportedAbsent # Range(images)
    /\ Started = ReportedAbsent

\* the steps whose failure the exit code must report: templating, pulling,
\* export, archive assembly
FatalSteps ==
    {"helm_template", "pull_images", "save_images_to_tar", "gzip_file",
     "tar_dir_as_tgz", "write_manifest", "create_final_tarball"}

\* C15: a finished run has exit code 0 exactly when no exception was raised,
\* so a failure of templating, of a pull under fail-fast, of the export or of
\* the archive assembly ends non-zero, and exit code 0 comes with the
\* written bundle; with ignore_errors set, failed pulls never raise and do
\* not by themselves make the run fail.
C15_ExitCodeReportsFatalErrors ==
    pc = "exit" =>
        /\ exitCode \in {0, 1}
        /\ exitCode = 0 <=> error = NoError
        /\ error.step \in FatalSteps => exitCode # 0
        /\ (~ignore_errors /\ pulledFailed # {}) => exitCode # 0
        /\ exitCode = 0 => outputFile = "complete" /\ "manifest.json" \in archFiles
        /\ ignore_errors => error.step # "pull_images"
        /\ (ignore_errors /\ exitCode # 0) =>
               error.step \in {"save_images_to_tar", "gzip_file", "write_manifest",
                               "create_final_tarball"} \/ pulledFailed = {}

C15_Witness ==
    /\ pc = "exit"
    /\ exitCode = 0
    /\ ignore_errors
    /\ Cardinality(pulledFailed) >= 2

\* str.splitlines() of a text whose only line break is "\n"
RECURSIVE SplitLines(_)
SplitLines(text) ==
    IF text = <<>> THEN <<>>
    ELSE IF \A i \in 1..Len(text) : text[i] # "\n" THEN <<text>>
    ELSE LET k == CHOOSE i \in 1..Len(text) :
                      /\ text[i] = "\n"
                      /\ \A j \in 1..(i - 1) : text[j] # "\n"
         IN <<SubSeq(text, 1, k - 1)>> \o SplitLines(SubSeq(text, k + 1, Len(text)))

\* the steps of main() that precede the write of images.list
BeforeImagesList == {"mkdtemp", "makedirs", "tar_dir_as_tgz", "helm_template"}

\* C16: images.list, once written, holds the extracted references one per
\* line in extraction order; it is written before any probe, pull or export
\* starts, so every finished run whose extraction succeeded and whose write
\* did not fail has it, whatever fails afterwards.
C16_ImagesListWrittenFirst ==
    /\ "images.list" \in archFiles => SplitLines(imagesList) = images
    /\ (probeResult # {} \/ Started # {} \/ submitted > 0 \/ exportCmds # <<>>)
           => "images.list" \in archFiles
    /\ pc \in PullPhase \cup AfterPull => "images.list" \in archFiles
    /\ (pc \in {"finally", "exit"}
           /\ error.step \notin BeforeImagesList \cup {"images.list"})
           => "images.list" \in archFiles

C16_Witness ==
    /\ pc = "exit"
    /\ error.step = "save_images_to_tar"
    /\ Len(images) >= 2
    /\ pulledFailed # {}
    /\ SplitLines(imagesList) = images

\* C18: outside pull_images no pull is running or queued and every submitted
\* pull has finished, after a normal return and after the fail-fast raise
\* alike; so the export, the manifest and archive writes and the removal of
\* the scratch directory all happen with no pull in flight.
C18_NoPullInFlightAfterReturn ==
    pc \notin PullPhase =>
        /\ running = {}
        /\ queue = <<>>
        /\ Cardinality(pulledOk \cup pulledFailed) = submitted
        /\ pulledOk \cap pulledFailed = {}

C18_Witness ==
    /\ pc = "finally"
    /\ error.step = "pull_images"
    /\ submitted >= 2
    /\ yielded # pulledOk \cup pulledFailed
    /\ running = {}

\* no probe made, no pull submitted or started
NoProbeNoPull ==
    /\ probeResult = {}
    /\ to_pull = <<>>
    /\ submitted = 0
    /\ queue = <<>>
    /\ Started = {}
    /\ pc \notin PullPhase

\* the export step of main() has been passed
ExportPassed ==
    \/ pc \in {"gzip", "remove", "manifest", "tarball", "report"}
    \/ /\ pc \in {"finally", "exit"}
       /\ error.step \notin BeforeImagesList \cup {"images.list"}

\* C19: with pulling disabled nothing is probed or pulled, and a non-empty
\* image list is still exported, once and whole; with an empty image list
\* nothing is probed, pulled or exported whatever the pull flag.
C19_NoPullStillExports ==
    /\ ~pull => NoProbeNoPull
    /\ (~pull /\ images # <<>> /\ ExportPassed) => exportCmds = <<images>>
    /\ images = <<>> => NoProbeNoPull /\ exportCmds = <<>>

C19_Witness ==
    /\ ~pull
    /\ Len(images) >= 2
    /\ exportCmds = <<images>>
    /\ exitCode = 0

\* the base name of the directory a path names: the last component, trailing
\* separators set aside
DirBaseName(path) == basename(rstrip(path, {SEP}))

\* C17: once charts.tgz is written, the name of its top-level entry is the
\* base name of the chart directory and is not empty, whether or not the
\* chart path ends in a separator.
C17_ChartsRootIsBaseName ==
    (pc = "render" /\ "charts.tgz" \in archFiles) =>
        /\ chartsRoot # <<>>
        /\ chartsRoot = DirBaseName(chart_path)

----------------------------------------------------------------------------
\* Properties of the extractor

TrimChars == WS \cup {DQ, SQ}

\* C10: no extracted reference is empty, and none begins or ends with a
\* whitespace character, a double quote or a single quote.
C10_NoQuotesOrBlanks ==
    \A i \in 1..Len(out) :
        /\ out[i] # <<>>
        /\ out[i][1] \notin TrimChars
        /\ out[i][Len(out[i])] \notin TrimChars

\* the reference an `image` value denotes, empty when it denotes none
ImageOf(v) ==
    CASE v.t = "str" -> StripImage(v.s)
      [] v.t = "dict" -> normalize_image_from_dict(v)
      [] OTHER -> <<>>

\* keeps the first occurrence of every non-empty text
RECURSIVE DedupFirst(_)
DedupFirst(s) ==
    IF s = <<>> THEN <<>>
    ELSE LET init == DedupFirst(SubSeq(s, 1, Len(s) - 1))
             x == s[Len(s)]
         IN IF x = <<>> \/ x \in Range(init) THEN init ELSE Append(init, x)

\* The image values of a node in the order the document writes them: an
\* `image` key counts where it stands among the keys of its mapping.
RECURSIVE TextOcc(_)
RECURSIVE TextOccFrom(_, _)
TextOccFrom(node, i) ==
    IF i > Len(node.kv) THEN <<>>
    ELSE LET p == node.kv[i]
             here == IF node.t = "dict" /\ p.k = "image"
                     THEN <<ImageOf(p.v)>> ELSE <<>>
         IN here \o TextOcc(p.v) \o TextOccFrom(node, i + 1)

TextOcc(node) == IF node.t \in {"dict", "list"} THEN TextOccFrom(node, 1) ELSE <<>>

\* The image values of a node in the order of the walk: for a mapping, the
\* images of its containers, initContainers and ephemeralContainers lists,
\* then its own `image`, then the walk of each of its values.
RECURSIVE ContainerOcc(_, _)
ContainerOcc(items, i) ==
    IF i > Len(items) THEN <<>>
    ELSE LET c == items[i].v
             here == IF c.t = "dict" /\ Get(c, "image").t = "str"
                     THEN <<StripImage(Get(c, "image").s)>> ELSE <<>>
         IN here \o ContainerOcc(items, i + 1)

ContainerListOcc(node, key) ==
    IF Get(node, key).t = "list" THEN ContainerOcc(Get(node, key).kv, 1) ELSE <<>>

RECURSIVE WalkOcc(_)
RECURSIVE WalkOccFrom(_, _)
WalkOccFrom(node, i) ==
    IF i > Len(node.kv) THEN <<>>
    ELSE WalkOcc(node.kv[i].v) \o WalkOccFrom(node, i + 1)

WalkOcc(node) ==
    CASE node.t = "dict" ->
            ContainerListOcc(node, "containers")
            \o ContainerListOcc(node, "initContainers")
            \o ContainerListOcc(node, "ephemeralContainers")
            \o (IF HasKey(node, "image") THEN <<ImageOf(Get(node, "image"))>> ELSE <<>>)
            \o WalkOccFrom(node, 1)
      [] node.t = "list" -> WalkOccFrom(node, 1)
      [] OTHER -> <<>>

\* the occurrences in the first n documents
RECURSIVE TextOccDocs(_)
TextOccDocs(n) == IF n = 0 THEN <<>> ELSE TextOccDocs(n - 1) \o TextOcc(docs[n])

RECURSIVE WalkOccDocs(_)
WalkOccDocs(n) == IF n = 0 THEN <<>> ELSE WalkOccDocs(n - 1) \o WalkOcc(docs[n])

\* C11 as stated: the extracted list holds every image once, ordered by
\* first occurrence in the documents as written.
C11_DocumentOrder ==
    out = DedupFirst(TextOccDocs(docIdx))

\* C11 amended: the extracted list holds no text twice and holds every image
\* once, ordered by first occurrence in the walk over the documents.
C11_WalkOrder ==
    /\ \A i, j \in 1..Len(out) : out[i] = out[j] => i = j
    /\ out = DedupFirst(WalkOccDocs(docIdx))

C11_Witness ==
    /\ Len(docs) = 2
    /\ docIdx = 2
    /\ Len(out) >= 2
    /\ \E r \in Range(WalkOcc(docs[1])) \cap Range(WalkOcc(docs[2])) :
          r # <<>> /\ r # out[1]

\* Properties of normalize_image_from_dict

RepoKeys == <<"repository", "repo", "name">>

\* repo@digest, repo:tag or repo, by whether a digest and a tag count as given
Compose(d, repo, hasDigest, hasTag) ==
    IF hasDigest
    THEN IF "@" \in Range(repo) THEN repo ELSE repo \o <<"@">> \o Get(d, "digest").s
    ELSE IF hasTag
    THEN IF ":" \in Range(repo) THEN repo ELSE repo \o <<":">> \o Get(d, "tag").s
    ELSE repo

\* C12 as stated: the repository is the first present of repository, repo,
\* name; no reference when none is present or the chosen one is empty; else
\* repo@digest when a digest is present, else repo:tag when a tag is
\* present, else the repository.
C12_FirstPresent ==
    pc = "normalized" =>
        LET Has(k) == HasKey(imgDict, k)
            present == {i \in 1..3 : Has(RepoKeys[i])}
            first == CHOOSE i \in present : \A j \in present : i <= j
        IN IF present = {} \/ Get(imgDict, RepoKeys[first]).s = <<>>
           THEN imgRef = <<>>
           ELSE imgRef = Compose(imgDict, Get(imgDict, RepoKeys[first]).s,
                                 Has("digest"), Has("tag"))

\* C12 amended: the same with "present" read as "present and not empty": the
\* repository is the first non-empty of the three, an empty digest or tag
\* counts as none.
C12_FirstNonEmpty ==
    pc = "normalized" =>
        LET Has(k) == HasKey(imgDict, k) /\ Get(imgDict, k).s # <<>>
            present == {i \in 1..3 : Has(RepoKeys[i])}
            first == CHOOSE i \in present : \A j \in present : i <= j
        IN IF present = {}
           THEN imgRef = <<>>
           ELSE imgRef = Compose(imgDict, Get(imgDict, RepoKeys[first]).s,
                                 Has("digest"), Has("tag"))

C12_Witness ==
    /\ pc = "normalized"
    /\ Get(imgDict, "repository") = Str(<<>>)
    /\ Get(imgDict, "tag") = Str(<<"t">>)
    /\ imgRef = <<"p", "@", "d">>

====
